---- MODULE Spec2Model ----
(***************************************************************************)
(* A model of simpleMCPServer (src/src/main.cpp): the accept loop, one     *)
(* MCPSession per accepted connection (HTTP framing, routing, body         *)
(* acquisition, SSE keep-alive), the JSON-RPC dispatcher and the tool      *)
(* registry.                                                               *)
(*                                                                         *)
(* JSON values are tagged records; a request body is a sequence of tokens  *)
(* ("bytes" of the model), decoded by ParseJson.  Every completion handler *)
(* of the program is one action.                                           *)
(***************************************************************************)
EXTENDS Integers, Sequences, FiniteSets, TLC

VARIABLES
    proc,          \* "running" (io_context.run), "exited" (main returned), "aborted"
    acceptErrors,  \* accept completions that carried an error code so far
    accepting,     \* an async_accept is outstanding
    sess,          \* the MCPSession of each connection
    tools_,        \* ToolRegistry::tools_ : name -> tool
    registered     \* the tools handed to registerTool so far, in order

vars == <<proc, acceptErrors, accepting, sess, tools_, registered>>

----------------------------------------------------------------------------
(* Bounds of the model *)

MaxConn == 2          \* connections the acceptor is offered
MaxAcceptErrors == 1  \* failed accept completions
MaxHeartbeats == 2    \* keepalive comments written on one SSE stream
MaxHeaderLines == 1   \* header lines of one request

Conns == 1..MaxConn

----------------------------------------------------------------------------
(* nlohmann::json values *)

JNull == [t |-> "null"]
JNum(n) == [t |-> "number", n |-> n]
JStr(s) == [t |-> "string", s |-> s]
JArr == [t |-> "array"]
JObj(o) == [t |-> "object", o |-> o]

NoMembers == [k \in {} |-> JNull]

\* json::contains(key): false on anything that is not an object
contains(j, key) == j.t = "object" /\ key \in DOMAIN j.o

\* non-const operator[] used as an lvalue: insert or overwrite a member
Put(j, key, v) ==
    JObj([k \in DOMAIN j.o \cup {key} |-> IF k = key THEN v ELSE j.o[k]])

\* type_name() as it appears in exception texts
TypeName(j) == j.t

\* Values a read through a dangling/end iterator may yield (NDEBUG builds)
UbValues == <<JNull, JStr("echo"), JObj(NoMembers)>>

\* const operator[](key) on a const json: the member; type_error 305 on a
\* non-object; undefined behaviour (JSON_ASSERT, else a read through end())
\* when the key is missing.
ConstIndex(j, key) ==
    IF j.t # "object"
    THEN {[k |-> "throw",
           what |-> "[json.exception.type_error.305] cannot use operator[] with a string argument with " \o TypeName(j)]}
    ELSE IF key \in DOMAIN j.o
    THEN {[k |-> "val", v |-> j.o[key]]}
    ELSE {[k |-> "ub"]} \cup {[k |-> "val", v |-> UbValues[i]] : i \in 1..Len(UbValues)}

----------------------------------------------------------------------------
(* Request bodies: token sequences, and json::parse *)

LBrace == [tk |-> "{"]
RBrace == [tk |-> "}"]
Member(key, val) == [tk |-> "member", key |-> key, val |-> val]
Value(val) == [tk |-> "value", val |-> val]
Junk == [tk |-> "junk"]

RECURSIVE Members(_)
\* the object built from member tokens; a repeated key keeps the last value
Members(ms) ==
    IF Len(ms) = 0 THEN NoMembers
    ELSE LET rest == Members(SubSeq(ms, 1, Len(ms) - 1))
             m == ms[Len(ms)]
         IN  [k \in DOMAIN rest \cup {m.key} |-> IF k = m.key THEN m.val ELSE rest[k]]

\* json::parse(message): the value, or parse_error
ParseJson(message) ==
    IF Len(message) = 1 /\ message[1].tk = "value"
    THEN [ok |-> TRUE, v |-> message[1].val]
    ELSE IF /\ Len(message) >= 2
            /\ message[1].tk = "{"
            /\ message[Len(message)].tk = "}"
            /\ \A i \in 2..(Len(message) - 1) : message[i].tk = "member"
    THEN [ok |-> TRUE, v |-> JObj(Members(SubSeq(message, 2, Len(message) - 1)))]
    ELSE [ok |-> FALSE, v |-> JNull]

----------------------------------------------------------------------------
(* Tools and the registry *)

ToolProperty(n, t, d, req) == [name |-> n, type |-> t, description |-> d, required |-> req]

EchoTool ==
    [name |-> "echo",
     description |-> "Echoes back the input text",
     properties |-> <<ToolProperty("text", "string", "Text to echo back", TRUE)>>,
     impl |-> "EchoTool"]

createTextContent(text) ==
    JObj([content |-> <<JObj([type |-> JStr("text"), text |-> JStr(text)])>>])

\* EchoExecute with a slip: a missing text member is refused
EchoExecute_RequiredEnforced(arguments) ==
    IF arguments.t # "object"
    THEN [k |-> "throw_std",
          what |-> "[json.exception.type_error.306] cannot use value() with " \o TypeName(arguments)]
    ELSE IF "text" \in DOMAIN arguments.o
    THEN IF arguments.o["text"].t = "string"
         THEN [k |-> "ok", v |-> createTextContent("Echo: " \o arguments.o["text"].s)]
         ELSE [k |-> "throw_std",
               what |-> "[json.exception.type_error.302] type must be string, but is "
                           \o TypeName(arguments.o["text"])]
    ELSE [k |-> "throw_std", what |-> "missing required field: text"]

\* EchoTool::execute: arguments.value("text", "") throws type_error 306 on a
\* non-object and 302 on a non-string member
EchoExecute(arguments) ==
    IF arguments.t # "object"
    THEN [k |-> "throw_std",
          what |-> "[json.exception.type_error.306] cannot use value() with " \o TypeName(arguments)]
    ELSE IF "text" \in DOMAIN arguments.o
    THEN IF arguments.o["text"].t = "string"
         THEN [k |-> "ok", v |-> createTextContent("Echo: " \o arguments.o["text"].s)]
         ELSE [k |-> "throw_std",
               what |-> "[json.exception.type_error.302] type must be string, but is "
                           \o TypeName(arguments.o["text"])]
    ELSE [k |-> "ok", v |-> createTextContent("Echo: " \o "")]

\* Tools written against the Tool interface besides the built-in one: a
\* second tool that names itself "echo", a tool whose handler throws a
\* std::runtime_error, and one whose handler throws an object that is not a
\* std::exception.
SecondEcho ==
    [name |-> "echo",
     description |-> "Echo, second edition",
     properties |-> <<ToolProperty("text", "string", "Text", FALSE),
                      ToolProperty("times", "number", "Repetitions", TRUE)>>,
     impl |-> "EchoTool"]

FailingTool ==
    [name |-> "fail",
     description |-> "Always fails",
     properties |-> <<>>,
     impl |-> "throws std::runtime_error"]

RaisingTool ==
    [name |-> "raise",
     description |-> "Raises a code",
     properties |-> <<ToolProperty("code", "number", "Code to raise", FALSE)>>,
     impl |-> "throws int"]

\* the virtual call tool->execute(arguments): the override returns a value,
\* throws a std::exception, or throws something else
Execute(tool, arguments) ==
    CASE tool.impl = "EchoTool" -> EchoExecute(arguments)
      [] tool.impl = "throws std::runtime_error" -> [k |-> "throw_std", what |-> "boom"]
      [] tool.impl = "throws int" -> [k |-> "throw_other", what |-> ""]

\* registerTool with a slip: a name already registered keeps its tool
registerTool_FirstWins(tools, tool) ==
    [n \in DOMAIN tools \cup {tool.name} |-> IF n \in DOMAIN tools THEN tools[n] ELSE tool]

\* ToolRegistry::registerTool
registerTool(tools, tool) ==
    [n \in DOMAIN tools \cup {tool.name} |-> IF n = tool.name THEN tool ELSE tools[n]]

\* ToolRegistry::getTool: the tool, or nullptr
Nullptr == [name |-> "", description |-> "", properties |-> <<>>, impl |-> "nullptr"]
getTool(tools, name) == IF name \in DOMAIN tools THEN tools[name] ELSE Nullptr

\* ToolRegistry::hasTool: tools_.find(name) != tools_.end()
hasTool(tools, name) == \E n \in DOMAIN tools : n = name

RECURSIVE SchemaProps(_)
\* Tool::getSchema, the loop: properties[prop.name] = {type, description}
SchemaProps(props) ==
    IF Len(props) = 0 THEN NoMembers
    ELSE LET rest == SchemaProps(SubSeq(props, 1, Len(props) - 1))
             p == props[Len(props)]
             e == JObj([type |-> JStr(p.type), description |-> JStr(p.description)])
         IN  [k \in DOMAIN rest \cup {p.name} |-> IF k = p.name THEN e ELSE rest[k]]

RECURSIVE SchemaRequired_EveryName(_)
\* SchemaRequired with a slip: the required flag is not looked at
SchemaRequired_EveryName(props) ==
    IF Len(props) = 0 THEN <<>>
    ELSE Append(SchemaRequired_EveryName(SubSeq(props, 1, Len(props) - 1)),
                JStr(props[Len(props)].name))

RECURSIVE SchemaRequired(_)
\* Tool::getSchema, the loop: required_props.push_back(prop.name) when required
SchemaRequired(props) ==
    IF Len(props) = 0 THEN <<>>
    ELSE LET rest == SchemaRequired(SubSeq(props, 1, Len(props) - 1))
             p == props[Len(props)]
         IN  IF p.required THEN Append(rest, JStr(p.name)) ELSE rest

getSchema(tool) ==
    JObj([name |-> JStr(tool.name),
          description |-> JStr(tool.description),
          inputSchema |-> JObj([type |-> JStr("object"),
                                properties |-> JObj(SchemaProps(tool.properties)),
                                required |-> SchemaRequired(tool.properties)])])

\* the orders in which an unordered_map of these names may be iterated
Orders(names) ==
    {q \in [1..Cardinality(names) -> names] : \A i, j \in DOMAIN q : i # j => q[i] # q[j]}

\* ToolRegistry::getToolsList: one array per possible iteration order
getToolsList(tools) ==
    {[i \in DOMAIN q |-> getSchema(tools[q[i]])] : q \in Orders(DOMAIN tools)}

----------------------------------------------------------------------------
(* The JSON-RPC dispatcher *)

\* "Copy id if present": response["id"] = request["id"] only when present
CopyIdIfPresent(response, request) ==
    IF contains(request, "id") THEN Put(response, "id", request.o["id"]) ELSE response

create_error_response(request, code, message) ==
    LET response == JObj([jsonrpc |-> JStr("2.0"),
                          error |-> JObj([code |-> JNum(code), message |-> JStr(message)])])
    IN  IF contains(request, "id")
        THEN Put(response, "id", request.o["id"])
        ELSE Put(response, "id", JNull)

handle_initialize(request) ==
    CopyIdIfPresent(
        JObj([jsonrpc |-> JStr("2.0"),
              result |-> JObj([protocolVersion |-> JStr("2024-11-05"),
                               serverInfo |-> JObj([name |-> JStr("CustomMCP"),
                                                    version |-> JStr("1.0.0")]),
                               capabilities |-> JObj([tools |-> JObj(NoMembers)])])]),
        request)

\* one response per iteration order of the registry
handle_tools_list(request, tools) ==
    {CopyIdIfPresent(JObj([jsonrpc |-> JStr("2.0"), result |-> JObj([tools |-> l])]), request)
        : l \in getToolsList(tools)}

\* What a dispatcher routine ends with: "return" (a response), "throw" (a
\* json::exception leaves it), "ub" (undefined behaviour was executed and the
\* build stopped the process), "terminate" (an exception that is no
\* std::exception leaves it: no catch clause up to main matches, and
\* std::terminate ends the process).  consulted counts registry calls,
\* executed lists the tools whose handler ran.
Return(response, consulted, executed) ==
    [k |-> "return", response |-> response, consulted |-> consulted, executed |-> executed]
Throw == [k |-> "throw", response |-> JNull, consulted |-> 0, executed |-> <<>>]
Ub == [k |-> "ub", response |-> JNull, consulted |-> 0, executed |-> <<>>]
Terminate(consulted, executed) ==
    [k |-> "terminate", response |-> JNull, consulted |-> consulted, executed |-> executed]

\* ToolsCallLookup with a slip: the error member is added to the response under
\* construction, whose result member was already set
ToolsCallLookup_ErrorAddedToResponse(request, tools, tool_name, arguments) ==
    LET response == CopyIdIfPresent(JObj([jsonrpc |-> JStr("2.0")]), request)
        tool == getTool(tools, tool_name)
        failed(code, message) ==
            Put(Put(response, "result", JNull), "error",
                JObj([code |-> JNum(code), message |-> JStr(message)]))
    IN  IF tool # Nullptr
        THEN LET r == Execute(tool, arguments)
             IN  IF r.k = "ok"
                 THEN Return(Put(response, "result", r.v), 1, <<tool_name>>)
                 ELSE IF r.k = "throw_std"
                 THEN Return(failed(-32603, "Tool execution error: " \o r.what),
                             1, <<tool_name>>)
                 ELSE Terminate(1, <<tool_name>>)
        ELSE Return(failed(-32602, "Unknown tool: " \o tool_name), 1, <<>>)

\* lines 503-523: the response is built, the tool looked up and run
ToolsCallLookup(request, tools, tool_name, arguments) ==
    LET response == CopyIdIfPresent(JObj([jsonrpc |-> JStr("2.0")]), request)
        tool == getTool(tools, tool_name)
    IN  IF tool # Nullptr
        THEN LET r == Execute(tool, arguments)
             IN  IF r.k = "ok"
                 THEN Return(Put(response, "result", r.v), 1, <<tool_name>>)
                 ELSE IF r.k = "throw_std"
                 THEN Return(create_error_response(request, -32603,
                                 "Tool execution error: " \o r.what), 1, <<tool_name>>)
                 ELSE Terminate(1, <<tool_name>>)
        ELSE Return(create_error_response(request, -32602, "Unknown tool: " \o tool_name),
                    1, <<>>)

\* line 501: json arguments = request["params"]["arguments"]
ToolsCallArguments(request, tools, tool_name) ==
    UNION {
        IF p.k = "throw" THEN {Throw}
        ELSE IF p.k = "ub" THEN {Ub}
        ELSE UNION {
            IF a.k = "throw" THEN {Throw}
            ELSE IF a.k = "ub" THEN {Ub}
            ELSE {ToolsCallLookup(request, tools, tool_name, a.v)}
            : a \in ConstIndex(p.v, "arguments")}
        : p \in ConstIndex(request, "params")}

\* line 500: std::string tool_name = request["params"]["name"], then the rest
handle_tools_call(request, tools) ==
    UNION {
        IF p.k = "throw" THEN {Throw}
        ELSE IF p.k = "ub" THEN {Ub}
        ELSE UNION {
            IF n.k = "throw" THEN {Throw}
            ELSE IF n.k = "ub" THEN {Ub}
            ELSE IF n.v.t # "string" THEN {Throw}
            ELSE ToolsCallArguments(request, tools, n.v.s)
            : n \in ConstIndex(p.v, "name")}
        : p \in ConstIndex(request, "params")}

\* Dispatch with a slip: the two error answers are exchanged
Dispatch_ErrorsExchanged(request, tools) ==
    IF contains(request, "method")
    THEN IF request.o["method"].t # "string"
         THEN {Throw}
         ELSE LET method == request.o["method"].s
              IN  IF method = "initialize"
                  THEN {Return(handle_initialize(request), 0, <<>>)}
                  ELSE IF method = "tools/list"
                  THEN {Return(r, 1, <<>>) : r \in handle_tools_list(request, tools)}
                  ELSE IF method = "tools/call"
                  THEN handle_tools_call(request, tools)
                  ELSE {Return(create_error_response(request, -32600, "Invalid Request"),
                               0, <<>>)}
    ELSE {Return(create_error_response(request, -32601, "Method not found"), 0, <<>>)}

\* handle_message, the try block after a successful parse
Dispatch(request, tools) ==
    IF contains(request, "method")
    THEN IF request.o["method"].t # "string"
         THEN {Throw}
         ELSE LET method == request.o["method"].s
              IN  IF method = "initialize"
                  THEN {Return(handle_initialize(request), 0, <<>>)}
                  ELSE IF method = "tools/list"
                  THEN {Return(r, 1, <<>>) : r \in handle_tools_list(request, tools)}
                  ELSE IF method = "tools/call"
                  THEN handle_tools_call(request, tools)
                  ELSE {Return(create_error_response(request, -32601, "Method not found"),
                               0, <<>>)}
    ELSE {Return(create_error_response(request, -32600, "Invalid Request"), 0, <<>>)}

\* handle_message with a slip: the catch block answers with the code of an
\* invalid request
handle_message_WrongParseCode(message, tools) ==
    LET parsed == ParseJson(message)
        parse_error == Return(create_error_response(JNull, -32600, "Invalid Request"), 0, <<>>)
    IN  IF ~parsed.ok
        THEN {[o EXCEPT !.k = "sent"] : o \in {parse_error}}
        ELSE {IF o.k = "throw" THEN [parse_error EXCEPT !.k = "sent"]
              ELSE IF o.k = "return" THEN [o EXCEPT !.k = "sent"]
              ELSE o
                : o \in Dispatch(parsed.v, tools)}

\* handle_message: every way the call can end.  "sent" outcomes carry the
\* response handed to send_response; an "ub" outcome carries none.
handle_message(message, tools) ==
    LET parsed == ParseJson(message)
        parse_error == Return(create_error_response(JNull, -32700, "Parse error"), 0, <<>>)
    IN  IF ~parsed.ok
        THEN {[o EXCEPT !.k = "sent"] : o \in {parse_error}}
        ELSE {IF o.k = "throw" THEN [parse_error EXCEPT !.k = "sent"]
              ELSE IF o.k = "return" THEN [o EXCEPT !.k = "sent"]
              ELSE o
                : o \in Dispatch(parsed.v, tools)}

----------------------------------------------------------------------------
(* HTTP framing: header lines and Content-Length *)

\* A header line as getline returns it (the "\n" removed), cut at its first
\* colon: key, whether a colon follows, and the characters after the colon.
Line(key, colon, after) == [key |-> key, colon |-> colon, after |-> after]

\* ::tolower over the key
ToLower(key) ==
    CASE key = "Content-Length" -> "content-length"
      [] key = "CONTENT-LENGTH" -> "content-length"
      [] key = "Host" -> "host"
      [] OTHER -> key

\* line.substr(colon_pos + 2), then pop_back of a trailing '\r'.
\* substr throws std::out_of_range when colon_pos + 2 > line.size().
HeaderValue(after) ==
    IF Len(after) = 0
    THEN [k |-> "throw", v |-> <<>>]
    ELSE LET value == SubSeq(after, 2, Len(after))
         IN  IF Len(value) > 0 /\ value[Len(value)] = "\r"
             THEN [k |-> "ok", v |-> SubSeq(value, 1, Len(value) - 1)]
             ELSE [k |-> "ok", v |-> value]

RECURSIVE ParseHeaders(_)
\* the while loop of read_request: the headers map, or the exception
ParseHeaders(lines) ==
    IF Len(lines) = 0 THEN [k |-> "ok", headers |-> [h \in {} |-> <<>>]]
    ELSE LET rest == ParseHeaders(SubSeq(lines, 1, Len(lines) - 1))
             line == lines[Len(lines)]
         IN  IF rest.k = "throw" THEN rest
             ELSE IF ~line.colon THEN rest
             ELSE LET val == HeaderValue(line.after)
                      key == ToLower(line.key)
                  IN  IF val.k = "throw" THEN [k |-> "throw", headers |-> rest.headers]
                      ELSE [k |-> "ok",
                            headers |-> [h \in DOMAIN rest.headers \cup {key} |->
                                            IF h = key THEN val.v ELSE rest.headers[h]]]

IsSpace(ch) == ch \in {" ", "\r", "\t"}
IsDigit(ch) == ch \in {"0", "1", "2", "3", "4", "5", "6", "7", "8", "9"}
DigitVal(ch) ==
    CASE ch = "0" -> 0 [] ch = "1" -> 1 [] ch = "2" -> 2 [] ch = "3" -> 3 [] ch = "4" -> 4
      [] ch = "5" -> 5 [] ch = "6" -> 6 [] ch = "7" -> 7 [] ch = "8" -> 8 [] ch = "9" -> 9

RECURSIVE SkipSpace(_)
SkipSpace(str) ==
    IF Len(str) > 0 /\ IsSpace(str[1]) THEN SkipSpace(Tail(str)) ELSE str

RECURSIVE Digits(_, _)
\* the value of the leading digits of str, continuing from acc
Digits(str, acc) ==
    IF Len(str) > 0 /\ IsDigit(str[1])
    THEN Digits(Tail(str), acc * 10 + DigitVal(str[1]))
    ELSE acc

\* std::stoull: leading whitespace, an optional sign, digits; invalid_argument
\* without a digit.  A '-' negates modulo 2^64: wrapped says that the result
\* is 2^64 - n, which is more than any buffer holds and more than a vector's
\* max_size (the header values of the model have too few digits to overflow).
Stoull(str) ==
    LET s1 == SkipSpace(str)
        neg == Len(s1) > 0 /\ s1[1] = "-"
        s2 == IF Len(s1) > 0 /\ s1[1] \in {"-", "+"} THEN Tail(s1) ELSE s1
    IN  IF Len(s2) = 0 \/ ~IsDigit(s2[1])
        THEN [k |-> "throw", n |-> 0, wrapped |-> FALSE]
        ELSE LET n == Digits(s2, 0)
             IN  [k |-> "ok", n |-> n, wrapped |-> neg /\ n > 0]

----------------------------------------------------------------------------
(* The session: what it writes *)

\* member names in the order std::map keeps them
DumpOrder == <<"error", "id", "jsonrpc", "method", "params", "result">>

RECURSIVE DumpMembers(_, _)
DumpMembers(o, keys) ==
    IF Len(keys) = 0 THEN <<>>
    ELSE (IF Head(keys) \in DOMAIN o THEN <<Member(Head(keys), o[Head(keys)])>> ELSE <<>>)
            \o DumpMembers(o, Tail(keys))

\* json::dump(): the text of a value, as tokens
Dump(j) ==
    IF j.t = "object" THEN <<LBrace>> \o DumpMembers(j.o, DumpOrder) \o <<RBrace>>
    ELSE <<Value(j)>>

\* an HTTP message handed to async_write
Http(status, ctype, length, connection, body) ==
    [status |-> status, ctype |-> ctype, length |-> length, connection |-> connection,
     body |-> body]

NoHttp == Http(0, "", 0, "", <<>>)

endpoint_msg ==
    JObj([jsonrpc |-> JStr("2.0"), method |-> JStr("endpoint"),
          params |-> JObj([endpoint |-> JStr("/message")])])

Keepalive == [tk |-> ": keepalive"]

\* the seconds of the heartbeat timer
KeepaliveSeconds == 30

\* the asynchronous operations a session starts on its socket or timer
AsyncReadUntil == [op |-> "async_read_until"]
AsyncRead(n) == [op |-> "async_read", n |-> n]
AsyncWrite(msg) == [op |-> "async_write", msg |-> msg]
AsyncWait(seconds) == [op |-> "async_wait", seconds |-> seconds]

NoHeaders == [h \in {} |-> <<>>]

Session ==
    [pc |-> "unborn",        \* the pending asynchronous operation, or the end state
     method |-> "", path |-> "",   \* the request line as parsed
     framed |-> FALSE,       \* the header block was parsed without an exception
     wireCL |-> FALSE,       \* an in-scope POST was sent with a Content-Length field
     calls |-> <<>>,         \* the routines of the session called so far
     out |-> NoHttp,         \* the message of the last async_write started
     buffer_ |-> <<>>,       \* the streambuf after the header block
     body_buffer |-> <<>>,   \* the body bytes taken from buffer_
     bytes_to_read |-> 0,    \* the size of remaining_buffer
     inflight |-> <<>>,      \* bytes the client sent that no read has taken
     netReads |-> 0,         \* async_read calls issued for the body
     message |-> <<>>,       \* the argument of handle_message
     responses |-> <<>>,     \* the arguments of send_response
     consulted |-> 0,        \* calls into the ToolRegistry
     executed |-> <<>>,      \* names of the tools whose handler ran
     heartbeats |-> 0,       \* keepalive comments written
     fault |-> "",           \* what left a handler of the session and ended the process
     ops |-> <<>>,           \* the asynchronous operations started, in order
     completed |-> 0,        \* the completion handlers of the session that have run
     write_buffer |-> "none", \* what owns the memory given to the last async_write
     wire |-> "none",        \* the bytes the last completed write put on the wire
     ec |-> FALSE,           \* a completion handler of the session was given an error code
     sse |-> FALSE,          \* the session answered with the event stream
     lines |-> <<>>,         \* the header lines as the client sent them
     headers |-> NoHeaders,  \* the headers map read_request built
     sent |-> <<>>,          \* the bytes the client sent after the header block
     content_length |-> 0,   \* read_post_body's content_length
     available |-> 0]        \* read_post_body's available

Called(s, routine) == [s EXCEPT !.calls = Append(@, routine)]

Started(s, op) == [s EXCEPT !.ops = Append(@, op)]

\* The memory behind asio::buffer(...) of an async_write: a std::string local
\* to the routine that starts the write, destroyed when the routine returns,
\* or a string the completion handler keeps through a shared_ptr
LocalString == "local std::string of the routine"
SharedString == "std::string held by the completion handler"

\* async_write reads the memory until the write completes.  Reading a
\* destroyed string is undefined: the bytes sent are those the session built
\* or whatever the memory holds by then.
WireOutcomes(s) ==
    IF s.write_buffer = SharedString THEN {"as built"} ELSE {"as built", "other bytes"}

\* a completion handler of the session is entered
Completed(s) == [s EXCEPT !.completed = @ + 1]

Step(s, p) == [s |-> s, proc |-> p]

\* an exception leaves the handler, io_context.run() and main's try block
Exits(s, what) == Step([s EXCEPT !.fault = what], "exited")

send_response(s, response) ==
    LET message == Http(200, "application/json", Len(Dump(response)), "close", Dump(response))
    IN  [Started(Called(s, "send_response"), AsyncWrite(message)) EXCEPT
            !.pc = "write",
            !.responses = Append(@, response),
            !.out = message, !.write_buffer = LocalString]

send_cors_response(s) ==
    LET response == Http(204, "", 0, "close", <<>>)
    IN  [Started(Called(s, "send_cors_response"), AsyncWrite(response)) EXCEPT
            !.pc = "write", !.out = response, !.write_buffer = LocalString]

send_404(s) ==
    LET response == Http(404, "", 0, "close", <<>>)
    IN  [Started(Called(s, "send_404"), AsyncWrite(response)) EXCEPT
            !.pc = "write", !.out = response, !.write_buffer = LocalString]

send_400(s) ==
    LET response == Http(400, "", 0, "close", <<>>)
    IN  [Started(Called(s, "send_400"), AsyncWrite(response)) EXCEPT
            !.pc = "write", !.out = response, !.write_buffer = LocalString]

send_sse_stream(s) ==
    LET response == Http(200, "text/event-stream", 0, "keep-alive", Dump(endpoint_msg))
    IN  [Started(Called(s, "send_sse_stream"), AsyncWrite(response)) EXCEPT
            !.pc = "sse_write", !.out = response, !.sse = TRUE,
            !.write_buffer = SharedString]

\* handle_message as the session runs it: the response goes to send_response;
\* undefined behaviour ends the process
RunHandleMessage(s, message, tools) ==
    LET s1 == [Called(s, "handle_message") EXCEPT !.message = message]
    IN  {IF o.k = "sent"
         THEN Step(send_response([s1 EXCEPT !.consulted = @ + o.consulted,
                                            !.executed = @ \o o.executed],
                                 o.response), "running")
         ELSE IF o.k = "terminate"
         THEN Step([s1 EXCEPT !.consulted = @ + o.consulted,
                              !.executed = @ \o o.executed,
                              !.fault = "std::terminate: an exception that is no std::exception"],
                   "aborted")
         ELSE Step([s1 EXCEPT !.fault = "undefined behaviour: const operator[] without the key"],
                   "aborted")
            : o \in handle_message(message, tools)}

\* read_post_body with a slip: an interim response is written while the read
\* of the rest of the body is pending
read_post_body_InterimResponse(s0, headers, tools) ==
    LET s == Called(s0, "read_post_body")
    IN  IF "content-length" \notin DOMAIN headers
        THEN {Step(send_400(s), "running")}
        ELSE LET cl == Stoull(headers["content-length"])
                 available == Len(s.buffer_)
                 s1 == [s EXCEPT !.content_length = cl.n, !.available = available]
             IN  IF cl.k = "throw"
                 THEN {Exits(s, "std::invalid_argument (stoull)")}
                 ELSE IF ~cl.wrapped /\ available >= cl.n
                 THEN RunHandleMessage(
                          [s1 EXCEPT !.buffer_ = SubSeq(@, cl.n + 1, Len(@))],
                          SubSeq(s.buffer_, 1, cl.n), tools)
                 ELSE IF cl.wrapped
                 THEN {Exits([s EXCEPT !.body_buffer = s.buffer_, !.buffer_ = <<>>],
                             "std::length_error (vector)")}
                 ELSE {Step([Started(Started(s1, AsyncWrite(Http(100, "", 0, "", <<>>))),
                                     AsyncRead(cl.n - available)) EXCEPT
                                      !.body_buffer = s.buffer_,
                                      !.buffer_ = <<>>,
                                      !.bytes_to_read = cl.n - available,
                                      !.netReads = @ + 1,
                                      !.pc = "read_body"], "running")}

\* read_post_body
read_post_body(s0, headers, tools) ==
    LET s == Called(s0, "read_post_body")
    IN  IF "content-length" \notin DOMAIN headers
        THEN {Step(send_400(s), "running")}
        ELSE LET cl == Stoull(headers["content-length"])
                 available == Len(s.buffer_)
                 s1 == [s EXCEPT !.content_length = cl.n, !.available = available]
             IN  IF cl.k = "throw"
                 THEN {Exits(s, "std::invalid_argument (stoull)")}
                 ELSE IF ~cl.wrapped /\ available >= cl.n
                 THEN RunHandleMessage(
                          [s1 EXCEPT !.buffer_ = SubSeq(@, cl.n + 1, Len(@))],
                          SubSeq(s.buffer_, 1, cl.n), tools)
                 ELSE IF cl.wrapped
                 THEN {Exits([s EXCEPT !.body_buffer = s.buffer_, !.buffer_ = <<>>],
                             "std::length_error (vector)")}
                 ELSE {Step([Started(s1, AsyncRead(cl.n - available)) EXCEPT
                                      !.body_buffer = s.buffer_,
                                      !.buffer_ = <<>>,
                                      !.bytes_to_read = cl.n - available,
                                      !.netReads = @ + 1,
                                      !.pc = "read_body"], "running")}

handle_get_request(s0, path) ==
    LET s == Called(s0, "handle_get_request")
    IN  IF path = "/" \/ path = "/sse" THEN send_sse_stream(s) ELSE send_404(s)

\* Route with a slip: OPTIONS is answered only on the paths of the server
Route_OptionsOnKnownPaths(s, method, path, headers, tools) ==
    IF method = "POST"
    THEN IF path = "/" \/ path = "/message"
         THEN read_post_body(s, headers, tools)
         ELSE {Step(send_404(s), "running")}
    ELSE IF method = "GET"
    THEN {Step(handle_get_request(s, path), "running")}
    ELSE IF method = "OPTIONS" /\ path \in {"/", "/sse", "/message"}
    THEN {Step(send_cors_response(s), "running")}
    ELSE {Step(send_404(s), "running")}

\* the routing at the end of read_request's completion handler
Route(s, method, path, headers, tools) ==
    IF method = "POST"
    THEN IF path = "/" \/ path = "/message"
         THEN read_post_body(s, headers, tools)
         ELSE {Step(send_404(s), "running")}
    ELSE IF method = "GET"
    THEN {Step(handle_get_request(s, path), "running")}
    ELSE IF method = "OPTIONS"
    THEN {Step(send_cors_response(s), "running")}
    ELSE {Step(send_404(s), "running")}

InScopePost(method, path) == method = "POST" /\ path \in {"/", "/message"}

\* whether the header block as sent holds a Content-Length field, in any case
WireHasContentLength(lines) ==
    \E i \in 1..Len(lines) :
        lines[i].colon /\ lines[i].key \in {"Content-Length", "content-length", "CONTENT-LENGTH"}

\* read_request's completion handler without an error code: the request line
\* and the header block are taken from buffer_, which keeps what followed them
OnRequestRead(s0, method, path, lines, buffered, later, tools) ==
    LET s == [Completed(s0) EXCEPT !.method = method, !.path = path,
                        !.wireCL = InScopePost(method, path) /\ WireHasContentLength(lines),
                        !.buffer_ = buffered, !.inflight = later,
                        !.lines = lines, !.sent = buffered \o later]
        parsed == ParseHeaders(lines)
    IN  IF parsed.k = "throw"
        THEN {Exits(s, "std::out_of_range (substr)")}
        ELSE Route([s EXCEPT !.framed = TRUE, !.headers = parsed.headers],
                   method, path, parsed.headers, tools)

\* OnBodyRead with a slip: the bytes read from the network are put first
OnBodyRead_NetworkFirst(s, tools) ==
    LET remaining_buffer == SubSeq(s.inflight, 1, s.bytes_to_read)
        body == remaining_buffer \o s.body_buffer
    IN  RunHandleMessage(
            [Completed(s) EXCEPT !.inflight = SubSeq(@, s.bytes_to_read + 1, Len(@)),
                                 !.body_buffer = body],
            body, tools)

\* read_post_body's async_read completion handler without an error code
OnBodyRead(s, tools) ==
    LET remaining_buffer == SubSeq(s.inflight, 1, s.bytes_to_read)
        body == s.body_buffer \o remaining_buffer
    IN  RunHandleMessage(
            [Completed(s) EXCEPT !.inflight = SubSeq(@, s.bytes_to_read + 1, Len(@)),
                                 !.body_buffer = body],
            body, tools)

----------------------------------------------------------------------------
(* What clients send *)

Methods == {"GET", "POST", "OPTIONS", "PUT"}
Paths == {"/", "/sse", "/message", "/other"}

ContentLengthValues ==
    {<<" ", "0", "\r">>, <<" ", "1", "\r">>, <<" ", "4", "\r">>,
     <<" ", "5", "\r">>,         \* "Content-Length: 5\r\n"
     <<"4", "\r">>,              \* "Content-Length:4\r\n"
     <<" ", "x", "\r">>,         \* "Content-Length: x\r\n"
     <<" ", "-", "1", "\r">>,    \* "Content-Length: -1\r\n"
     <<>>}                       \* "Content-Length:\n"

HeaderLineChoices ==
    {Line("Content-Length", TRUE, v) : v \in ContentLengthValues}
    \cup {Line("content-length", TRUE, <<" ", "4", "\r">>),
          Line("CONTENT-LENGTH", TRUE, <<" ", "1", "\r">>),
          Line("Content-Length", FALSE, <<>>),
          Line("Host", TRUE, <<" ", "x", "\r">>),
          Line("Host", TRUE, <<"\r">>),
          Line("Host", TRUE, <<>>),
          Line("Host", FALSE, <<>>)}

HeaderBlocks == UNION {[1..n -> HeaderLineChoices] : n \in 0..MaxHeaderLines}

\* a JSON object text: its members between braces
ObjectText(members) == <<LBrace>> \o members \o <<RBrace>>

EchoArgs == JObj([text |-> JStr("hi")])

WireBodies ==
    {ObjectText(<<Member("id", JNum(1)), Member("method", JStr("initialize"))>>),
     ObjectText(<<Member("method", JStr("tools/call")),
                  Member("params", JObj([name |-> JStr("nope")]))>>),
     <<Junk>>}

\* how many body bytes may arrive together with the header block
Splits(body) == {n \in {0, 1, Len(body)} : n <= Len(body)}

\* only an in-scope POST is sent with a body
BodiesFor(method, path) ==
    IF InScopePost(method, path) THEN WireBodies ELSE {<<>>}

----------------------------------------------------------------------------
(* The server *)

NoTools == [n \in {} |-> EchoTool]

Init ==
    /\ proc = "running"
    /\ acceptErrors = 0
    /\ accepting = TRUE                          \* MCPServer's constructor calls accept()
    /\ sess = [c \in Conns |-> Session]
    /\ tools_ = registerTool(NoTools, EchoTool)  \* main: registerTool<EchoTool>()
    /\ registered = <<EchoTool>>

\* the session is destroyed: no handler holds it any more
Destroyed(s, end, ec) == [Session EXCEPT !.pc = end, !.ec = ec, !.sse = s.sse]

\* async_accept completes with a socket: a session starts, accept() is called again
Accept(c) ==
    /\ proc = "running" /\ accepting
    /\ sess[c].pc = "unborn"
    /\ \A d \in Conns : d < c => sess[d].pc # "unborn"
    /\ sess' = [sess EXCEPT ![c] = [Started(Called(Called(Session, "start"), "read_request"),
                                             AsyncReadUntil)
                                        EXCEPT !.pc = "read_request"]]
    /\ accepting' = TRUE
    /\ UNCHANGED <<proc, acceptErrors, tools_, registered>>

\* async_accept completes with an error: accept() is called again
AcceptError ==
    /\ proc = "running" /\ accepting
    /\ acceptErrors < MaxAcceptErrors
    /\ acceptErrors' = acceptErrors + 1
    /\ accepting' = TRUE
    /\ UNCHANGED <<proc, sess, tools_, registered>>

\* what a handler's outcome does to the process: an exception that leaves the
\* handler leaves io_context.run() and main returns; an abort ends the process
Outcome(c, r) ==
    /\ sess' = [sess EXCEPT ![c] = r.s]
    /\ proc' = r.proc
    /\ accepting' = (r.proc = "running")
    /\ UNCHANGED <<acceptErrors, tools_, registered>>

RequestRead(c) ==
    /\ proc = "running"
    /\ sess[c].pc = "read_request"
    /\ \E method \in Methods, path \in Paths, lines \in HeaderBlocks :
         \E body \in BodiesFor(method, path) :
           \E n \in Splits(body) :
             \E r \in OnRequestRead(sess[c], method, path, lines,
                                    SubSeq(body, 1, n), SubSeq(body, n + 1, Len(body)), tools_) :
                Outcome(c, r)

\* async_read_until completes with an error: it is logged and nothing else is started
RequestReadError(c) ==
    /\ proc = "running"
    /\ sess[c].pc = "read_request"
    /\ sess' = [sess EXCEPT ![c] = Destroyed(@, "abandoned", TRUE)]
    /\ UNCHANGED <<proc, acceptErrors, accepting, tools_, registered>>

BodyRead(c) ==
    /\ proc = "running"
    /\ sess[c].pc = "read_body"
    /\ Len(sess[c].inflight) >= sess[c].bytes_to_read
    /\ \E r \in OnBodyRead(sess[c], tools_) : Outcome(c, r)

BodyReadError(c) ==
    /\ proc = "running"
    /\ sess[c].pc = "read_body"
    /\ sess' = [sess EXCEPT ![c] = Destroyed(@, "abandoned", TRUE)]
    /\ UNCHANGED <<proc, acceptErrors, accepting, tools_, registered>>

\* WriteDone with a slip: a failed write returns before socket_.close()
WriteDone_ClosesOnSuccess(c) ==
    /\ proc = "running"
    /\ sess[c].pc = "write"
    /\ \E ec \in BOOLEAN :
         \E w \in WireOutcomes(sess[c]) :
           sess' = [sess EXCEPT ![c] = IF ec THEN [@ EXCEPT !.pc = "abandoned", !.ec = TRUE]
                                       ELSE [Destroyed(@, "closed", ec) EXCEPT !.wire = w]]
    /\ UNCHANGED <<proc, acceptErrors, accepting, tools_, registered>>

\* the completion handler of send_response, send_cors_response, send_404 and
\* send_400: socket_.close(), whatever the error code
WriteDone(c) ==
    /\ proc = "running"
    /\ sess[c].pc = "write"
    /\ \E ec \in BOOLEAN :
         \E w \in WireOutcomes(sess[c]) :
           sess' = [sess EXCEPT ![c] = [Destroyed(@, "closed", ec) EXCEPT
                                           !.wire = IF ec THEN "none" ELSE w]]
    /\ UNCHANGED <<proc, acceptErrors, accepting, tools_, registered>>

\* keep_alive_sse with a slip: the stream is given up after its first heartbeat
keep_alive_sse_GivesUp(s) ==
    IF s.heartbeats >= 1
    THEN Destroyed(s, "closed", FALSE)
    ELSE [Started(Called(s, "keep_alive_sse"), AsyncWait(KeepaliveSeconds)) EXCEPT
            !.pc = "sse_timer"]

\* keep_alive_sse: a timer is created and waited for
keep_alive_sse(s) ==
    [Started(Called(s, "keep_alive_sse"), AsyncWait(KeepaliveSeconds)) EXCEPT !.pc = "sse_timer"]

\* SseWriteDone with a slip: the first keepalive is written without a timer
SseWriteDone_NoTimer(c) ==
    /\ proc = "running"
    /\ sess[c].pc = "sse_write"
    /\ \E ec \in BOOLEAN :
         sess' = [sess EXCEPT ![c] =
                    IF ~ec
                    THEN [Started(Completed(@),
                                  AsyncWrite(Http(0, "", 0, "", <<Keepalive>>))) EXCEPT
                                   !.pc = "sse_keepalive",
                                   !.out = Http(0, "", 0, "", <<Keepalive>>),
                                   !.write_buffer = LocalString]
                    ELSE Destroyed(@, "abandoned", TRUE)]
    /\ UNCHANGED <<proc, acceptErrors, accepting, tools_, registered>>

\* the handshake write completes
SseWriteDone(c) ==
    /\ proc = "running"
    /\ sess[c].pc = "sse_write"
    /\ \E ec \in BOOLEAN :
         sess' = [sess EXCEPT ![c] = IF ~ec
                                     THEN keep_alive_sse([Completed(@) EXCEPT
                                                             !.wire = "as built"])
                                     ELSE Destroyed(@, "abandoned", TRUE)]
    /\ UNCHANGED <<proc, acceptErrors, accepting, tools_, registered>>

\* the heartbeat timer completes: the keepalive comment is written
TimerDone(c) ==
    /\ proc = "running"
    /\ sess[c].pc = "sse_timer"
    /\ \E ec \in BOOLEAN :
         /\ ~ec => sess[c].heartbeats < MaxHeartbeats
         /\ sess' = [sess EXCEPT ![c] =
                        IF ~ec
                        THEN [Started(Completed(@),
                                      AsyncWrite(Http(0, "", 0, "", <<Keepalive>>))) EXCEPT
                                       !.pc = "sse_keepalive",
                                       !.out = Http(0, "", 0, "", <<Keepalive>>),
                                   !.write_buffer = LocalString]
                        ELSE Destroyed(@, "abandoned", TRUE)]
    /\ UNCHANGED <<proc, acceptErrors, accepting, tools_, registered>>

\* KeepaliveWriteDone with a slip: the error code is not looked at
KeepaliveWriteDone_ReschedulesAnyway(c) ==
    /\ proc = "running"
    /\ sess[c].pc = "sse_keepalive"
    /\ \E ec \in BOOLEAN :
         sess' = [sess EXCEPT ![c] = keep_alive_sse([Completed(@) EXCEPT
                                                        !.heartbeats = @ + 1, !.ec = ec])]
    /\ UNCHANGED <<proc, acceptErrors, accepting, tools_, registered>>

\* the keepalive write completes
KeepaliveWriteDone(c) ==
    /\ proc = "running"
    /\ sess[c].pc = "sse_keepalive"
    /\ \E ec \in BOOLEAN :
         \E w \in WireOutcomes(sess[c]) :
           sess' = [sess EXCEPT ![c] =
                      IF ~ec THEN keep_alive_sse([Completed(@) EXCEPT !.heartbeats = @ + 1,
                                                                      !.wire = w])
                      ELSE Destroyed(@, "abandoned", TRUE)]
    /\ UNCHANGED <<proc, acceptErrors, accepting, tools_, registered>>

Next ==
    \/ AcceptError
    \/ \E c \in Conns :
        \/ Accept(c)
        \/ RequestRead(c)
        \/ RequestReadError(c)
        \/ BodyRead(c)
        \/ BodyReadError(c)
        \/ WriteDone(c)
        \/ SseWriteDone(c)
        \/ TimerDone(c)
        \/ KeepaliveWriteDone(c)

Spec == Init /\ [][Next]_vars

----------------------------------------------------------------------------
(* One connection from accept to its end: sessions share nothing but the    *)
(* process and the registry, which no session writes                        *)

NextSession ==
    \/ AcceptError
    \/ Accept(1)
    \/ RequestRead(1)
    \/ RequestReadError(1)
    \/ BodyRead(1)
    \/ BodyReadError(1)
    \/ WriteDone(1)
    \/ SseWriteDone(1)
    \/ TimerDone(1)
    \/ KeepaliveWriteDone(1)

SpecSession == Init /\ [][NextSession]_vars

----------------------------------------------------------------------------
(* The registry filled by any sequence of registrations before the server   *)
(* is constructed, then one connection that posts a tools request           *)

ToolChoices == {EchoTool, SecondEcho, FailingTool, RaisingTool}

MaxRegistrations == 3

ToolNames == {"echo", "fail", "raise", "nope"}

ToolArguments == {EchoArgs, JObj(NoMembers), JObj([text |-> JNum(5)])}

ToolMessages ==
    {ObjectText(<<Member("id", JNum(1)), Member("method", JStr("tools/list"))>>)}
    \cup {ObjectText(<<Member("id", JNum(1)), Member("method", JStr("tools/call")),
                       Member("params", JObj([name |-> JStr(n), arguments |-> a]))>>)
            : n \in ToolNames, a \in ToolArguments}

DigitChar(n) ==
    CASE n = 0 -> "0" [] n = 1 -> "1" [] n = 2 -> "2" [] n = 3 -> "3" [] n = 4 -> "4"
      [] n = 5 -> "5" [] n = 6 -> "6" [] n = 7 -> "7" [] n = 8 -> "8" [] n = 9 -> "9"

\* "Content-Length: <n>\r\n" for a length of one digit
ContentLengthLine(n) == Line("Content-Length", TRUE, <<" ", DigitChar(n), "\r">>)

InitTools ==
    /\ proc = "running"
    /\ acceptErrors = 0
    /\ accepting = FALSE                 \* main has not constructed the MCPServer yet
    /\ sess = [c \in Conns |-> Session]
    /\ tools_ = NoTools
    /\ registered = <<>>

\* ToolRegistry::instance().registerTool(tool)
Register(tool) ==
    /\ proc = "running" /\ ~accepting
    /\ Len(registered) < MaxRegistrations
    /\ tools_' = registerTool(tools_, tool)
    /\ registered' = Append(registered, tool)
    /\ UNCHANGED <<proc, acceptErrors, accepting, sess>>

\* MCPServer's constructor: accept()
Serve ==
    /\ proc = "running" /\ ~accepting
    /\ accepting' = TRUE
    /\ UNCHANGED <<proc, acceptErrors, sess, tools_, registered>>

\* read_request's completion handler for a POST /message that carries a tools
\* request and its length
ToolsRequestRead(c) ==
    /\ proc = "running"
    /\ sess[c].pc = "read_request"
    /\ \E body \in ToolMessages :
         \E n \in Splits(body) :
           \E r \in OnRequestRead(sess[c], "POST", "/message",
                                  <<ContentLengthLine(Len(body))>>,
                                  SubSeq(body, 1, n), SubSeq(body, n + 1, Len(body)), tools_) :
              Outcome(c, r)

NextTools ==
    \/ \E tool \in ToolChoices : Register(tool)
    \/ Serve
    \/ Accept(1)
    \/ ToolsRequestRead(1)
    \/ BodyRead(1)
    \/ BodyReadError(1)
    \/ WriteDone(1)

SpecTools == InitTools /\ [][NextTools]_vars

----------------------------------------------------------------------------
(* Connections served side by side: every connection sends one of a few     *)
(* requests, and the completion handlers of the sessions run in any order   *)

Request(method, path, lines, body) ==
    [method |-> method, path |-> path, lines |-> lines, body |-> body]

InitializeText ==
    ObjectText(<<Member("id", JNum(1)), Member("method", JStr("initialize"))>>)

EchoCallText ==
    ObjectText(<<Member("id", JNum(2)), Member("method", JStr("tools/call")),
                 Member("params", JObj([name |-> JStr("echo"), arguments |-> EchoArgs]))>>)

SideBySideRequests ==
    {Request("POST", "/message", <<ContentLengthLine(Len(InitializeText))>>, InitializeText),
     Request("POST", "/", <<ContentLengthLine(Len(EchoCallText))>>, EchoCallText),
     Request("POST", "/message", <<Line("Host", TRUE, <<" ", "x", "\r">>)>>, <<>>),
     Request("POST", "/message", <<Line("Content-Length", TRUE, <<" ", "x", "\r">>)>>, <<Junk>>),
     Request("GET", "/sse", <<>>, <<>>),
     Request("OPTIONS", "/message", <<>>, <<>>),
     Request("GET", "/other", <<>>, <<>>)}

\* a body arrives with the header block, or after it
SideBySideSplits(body) == {0, Len(body)}

SideBySideRequestRead(c) ==
    /\ proc = "running"
    /\ sess[c].pc = "read_request"
    /\ \E q \in SideBySideRequests :
         \E n \in SideBySideSplits(q.body) :
           \E r \in OnRequestRead(sess[c], q.method, q.path, q.lines,
                                  SubSeq(q.body, 1, n), SubSeq(q.body, n + 1, Len(q.body)),
                                  tools_) :
              Outcome(c, r)

NextSideBySide ==
    \/ AcceptError
    \/ \E c \in Conns :
        \/ Accept(c)
        \/ SideBySideRequestRead(c)
        \/ RequestReadError(c)
        \/ BodyRead(c)
        \/ BodyReadError(c)
        \/ WriteDone(c)
        \/ SseWriteDone(c)
        \/ TimerDone(c)
        \/ KeepaliveWriteDone(c)

SpecSideBySide == Init /\ [][NextSideBySide]_vars

----------------------------------------------------------------------------
(* The dispatcher over a wide set of bodies: a session that waits for the    *)
(* whole body of an in-scope POST (nothing of it was buffered)               *)

Merge(f, g) == [k \in DOMAIN f \cup DOMAIN g |-> IF k \in DOMAIN f THEN f[k] ELSE g[k]]

IdMembers ==
    {<<>>, <<Member("id", JNull)>>, <<Member("id", JNum(1))>>, <<Member("id", JStr("1"))>>}

MethodMembers ==
    {<<>>} \cup {<<Member("method", v)>> :
                    v \in {JStr("initialize"), JStr("tools/list"), JStr("tools/call"),
                           JStr("ping"), JNum(7), JNull}}

NameOptions ==
    {NoMembers, [name |-> JStr("echo")], [name |-> JStr("nope")], [name |-> JNum(5)]}

ArgumentsOptions ==
    {NoMembers, [arguments |-> EchoArgs], [arguments |-> JObj(NoMembers)],
     [arguments |-> JObj([text |-> JNum(5)])], [arguments |-> JStr("raw")],
     [arguments |-> JNull]}

ParamsMembers ==
    {<<>>, <<Member("params", JNull)>>, <<Member("params", JStr("x"))>>}
    \cup {<<Member("params", JObj(Merge(n, a)))>> : n \in NameOptions, a \in ArgumentsOptions}

RpcMessages ==
    {ObjectText(i \o m \o p) : i \in IdMembers, m \in MethodMembers, p \in ParamsMembers}
    \cup {<<Value(JNum(7))>>, <<Value(JArr)>>, <<Junk>>,
          <<LBrace, Member("id", JNum(1))>>,
          ObjectText(<<Member("id", JNum(1)), Member("id", JStr("1")),
                       Member("method", JStr("initialize"))>>)}

\* read_post_body has started the async_read for a body of Len(message) bytes
AwaitingBody(message) ==
    [Called(Called(Called(Session, "start"), "read_request"), "read_post_body") EXCEPT
        !.pc = "read_body", !.method = "POST", !.path = "/message",
        !.framed = TRUE, !.wireCL = TRUE,
        !.ops = <<AsyncReadUntil, AsyncRead(Len(message))>>, !.completed = 1,
        !.sent = message, !.content_length = Len(message),
        !.bytes_to_read = Len(message), !.netReads = 1, !.inflight = message]

InitRpc ==
    /\ proc = "running"
    /\ acceptErrors = 0
    /\ accepting = TRUE
    /\ \E message \in RpcMessages :
         sess = [c \in Conns |-> IF c = 1 THEN AwaitingBody(message) ELSE Session]
    /\ tools_ = registerTool(NoTools, EchoTool)
    /\ registered = <<EchoTool>>

NextRpc ==
    \E c \in Conns :
        \/ BodyRead(c)
        \/ BodyReadError(c)
        \/ WriteDone(c)

SpecRpc == InitRpc /\ [][NextRpc]_vars

----------------------------------------------------------------------------
(* Vocabulary of the properties *)

Range(q) == {q[i] : i \in 1..Len(q)}

\* the session has called handle_message
Dispatched(s) == "handle_message" \in Range(s.calls)

\* the session has handed a response to send_response
Responded(s) == Len(s.responses) > 0

\* the body handed to handle_message, decoded
Decoded(s) == ParseJson(s.message)

ErrorCode(response) == response.o["error"].o["code"].n
ErrorMessage(response) == response.o["error"].o["message"].s

IsError(response, code, message) ==
    /\ contains(response, "error")
    /\ ~contains(response, "result")
    /\ response.o["error"] = JObj([code |-> JNum(code), message |-> JStr(message)])

\* the decoded request is a tools/call with a string params.name
IsToolsCallNamed(request) ==
    /\ contains(request, "method")
    /\ request.o["method"] = JStr("tools/call")
    /\ contains(request, "params")
    /\ contains(request.o["params"], "name")
    /\ request.o["params"].o["name"].t = "string"

----------------------------------------------------------------------------
(* C1..C4, C8..C10: the dispatcher (SpecRpc) *)

\* C1: whenever the body decodes as JSON and carries an id, the response
\* handed to send_response has an id member equal to it, on every path.
C1_IdEchoed ==
    \A c \in Conns :
        (/\ Responded(sess[c])
         /\ Decoded(sess[c]).ok
         /\ contains(Decoded(sess[c]).v, "id"))
        => /\ contains(sess[c].responses[1], "id")
           /\ sess[c].responses[1].o["id"] = Decoded(sess[c]).v.o["id"]

\* C2: every response has an id member, and it is null when the request
\* carried no id.
C2_IdAlwaysPresent ==
    \A c \in Conns :
        Responded(sess[c])
        => /\ contains(sess[c].responses[1], "id")
           /\ ~contains(Decoded(sess[c]).v, "id") => sess[c].responses[1].o["id"] = JNull

\* C3: every response handed to send_response has exactly one of the members
\* result and error.
C3_ResultXorError ==
    \A c \in Conns :
        \A i \in 1..Len(sess[c].responses) :
            contains(sess[c].responses[i], "result") # contains(sess[c].responses[i], "error")

\* a tools/call was answered with an error response
C3_Witness ==
    \E c \in Conns :
        /\ Responded(sess[c])
        /\ Decoded(sess[c]).ok
        /\ IsToolsCallNamed(Decoded(sess[c]).v)
        /\ contains(sess[c].responses[1], "error")
        /\ ErrorCode(sess[c].responses[1]) = -32603
        /\ sess[c].executed = <<"echo">>

\* the message given to async_write is a well-formed JSON-RPC response
WellFormedReply(out) ==
    /\ out.status = 200
    /\ out.ctype = "application/json"
    /\ out.length = Len(out.body)
    /\ ParseJson(out.body).ok
    /\ LET r == ParseJson(out.body).v
       IN  /\ contains(r, "jsonrpc") /\ r.o["jsonrpc"] = JStr("2.0")
           /\ contains(r, "result") # contains(r, "error")

\* C4: whatever body handle_message is given, it ends with exactly one
\* well-formed JSON-RPC response started and the process still running.
C4_AlwaysOneReply ==
    /\ proc = "running"
    /\ \A c \in Conns :
        Dispatched(sess[c])
        => /\ Len(sess[c].responses) = 1
           /\ sess[c].pc = "write"
           /\ WellFormedReply(sess[c].out)

\* C8: a body that fails to decode is answered -32700 "Parse error" with id
\* null, by a response started with Connection: close.
C8_ParseError ==
    \A c \in Conns :
        (Dispatched(sess[c]) /\ ~Decoded(sess[c]).ok)
        => /\ sess[c].responses =
                <<JObj([jsonrpc |-> JStr("2.0"),
                        error |-> JObj([code |-> JNum(-32700), message |-> JStr("Parse error")]),
                        id |-> JNull])>>
           /\ sess[c].pc = "write"
           /\ proc = "running"
           /\ sess[c].out.status = 200
           /\ sess[c].out.connection = "close"
           /\ ParseJson(sess[c].out.body) = [ok |-> TRUE, v |-> sess[c].responses[1]]

C8_Witness ==
    \E c \in Conns :
        /\ Dispatched(sess[c])
        /\ sess[c].message = <<LBrace, Member("id", JNum(1))>>
        /\ Responded(sess[c])
        /\ ErrorCode(sess[c].responses[1]) = -32700

KnownMethods == {"initialize", "tools/list", "tools/call"}

\* C9: a decoded request without a method member is answered -32600, one
\* whose method is a string outside the three known ones -32601, and neither
\* touches the registry or a tool.
C9_InvalidOrUnknownMethod ==
    \A c \in Conns :
        (Dispatched(sess[c]) /\ Decoded(sess[c]).ok)
        => LET request == Decoded(sess[c]).v
           IN  /\ ~contains(request, "method")
                    => /\ Len(sess[c].responses) = 1
                       /\ IsError(sess[c].responses[1], -32600, "Invalid Request")
                       /\ sess[c].consulted = 0 /\ sess[c].executed = <<>>
               /\ (/\ contains(request, "method")
                   /\ request.o["method"].t = "string"
                   /\ request.o["method"].s \notin KnownMethods)
                    => /\ Len(sess[c].responses) = 1
                       /\ IsError(sess[c].responses[1], -32601, "Method not found")
                       /\ sess[c].consulted = 0 /\ sess[c].executed = <<>>

C9_Witness ==
    \E c \in Conns :
        /\ Dispatched(sess[c])
        /\ sess[c].message = ObjectText(<<Member("id", JNum(1)), Member("method", JStr("ping")),
                                          Member("params", JObj([name |-> JStr("echo"),
                                                                 arguments |-> EchoArgs]))>>)
        /\ Responded(sess[c])
        /\ ErrorCode(sess[c].responses[1]) = -32601

\* C10: a tools/call whose params.name is a string that is not registered is
\* answered -32602 "Unknown tool: <name>", no handler runs, the registry is
\* as it was registered.
C10_UnknownTool ==
    \A c \in Conns :
        (/\ Dispatched(sess[c])
         /\ Decoded(sess[c]).ok
         /\ IsToolsCallNamed(Decoded(sess[c]).v)
         /\ Decoded(sess[c]).v.o["params"].o["name"].s \notin DOMAIN tools_)
        => /\ Len(sess[c].responses) = 1
           /\ IsError(sess[c].responses[1], -32602,
                      "Unknown tool: " \o Decoded(sess[c]).v.o["params"].o["name"].s)
           /\ sess[c].executed = <<>>
           /\ tools_ = registerTool(NoTools, EchoTool)

----------------------------------------------------------------------------
(* C5..C7: the accept loop, routing and framing (Spec) *)

\* C5: whatever the connections send, the process keeps running with an
\* accept outstanding.
C5_AcceptLoopArmed == proc = "running" /\ accepting

\* the action the routing table of the specification gives
RoutingTable(method, path) ==
    CASE method = "GET" -> IF path \in {"/", "/sse"} THEN "send_sse_stream" ELSE "send_404"
      [] method = "POST" -> IF path \in {"/", "/message"} THEN "read_post_body" ELSE "send_404"
      [] method = "OPTIONS" -> "send_cors_response"
      [] OTHER -> "send_404"

RoutedActions == {"send_sse_stream", "send_404", "read_post_body", "send_cors_response"}

\* C6: a framed request has taken exactly the action its (method, path) has
\* in the routing table, and the response started is that action's.
C6_RoutingTable ==
    \A c \in Conns :
        sess[c].framed
        => /\ RoutedActions \cap Range(sess[c].calls)
                = {RoutingTable(sess[c].method, sess[c].path)}
           /\ RoutingTable(sess[c].method, sess[c].path) = "send_404"
                => sess[c].pc = "write" /\ sess[c].out.status = 404
           /\ RoutingTable(sess[c].method, sess[c].path) = "send_cors_response"
                => sess[c].pc = "write" /\ sess[c].out.status = 204
                                        /\ sess[c].out.body = <<>>
           /\ RoutingTable(sess[c].method, sess[c].path) = "send_sse_stream"
                => sess[c].pc \in {"sse_write", "sse_timer", "sse_keepalive"}

C6_Witness ==
    \E c \in Conns :
        /\ sess[c].framed
        /\ sess[c].method = "OPTIONS"
        /\ sess[c].path = "/other"
        /\ sess[c].pc = "write"
        /\ sess[c].out.status = 204

\* C7: once the request of an in-scope POST without a Content-Length field
\* has been read, the 400 response is being written and nothing was taken as
\* a body, read from the network or dispatched.
C7_MissingLength400 ==
    \A c \in Conns :
        (InScopePost(sess[c].method, sess[c].path) /\ ~sess[c].wireCL)
        => /\ sess[c].pc = "write"
           /\ sess[c].out.status = 400
           /\ sess[c].out.connection = "close"
           /\ sess[c].body_buffer = <<>>
           /\ sess[c].netReads = 0
           /\ ~Dispatched(sess[c])
           /\ sess[c].responses = <<>>

----------------------------------------------------------------------------
(* C11, C15..C17: tools and the registry (SpecTools) *)

\* the decoded request is a tools/call with a string params.name and a
\* params.arguments member
IsToolsCallWithArguments(request) ==
    /\ IsToolsCallNamed(request)
    /\ contains(request.o["params"], "arguments")

CalledName(request) == request.o["params"].o["name"].s
CalledArguments(request) == request.o["params"].o["arguments"]

Parameters(tool) == Range(tool.properties)
RequiredNames(tool) == {p.name : p \in {q \in Parameters(tool) : q.required}}

\* C15: the response to tools/list has one entry per tool of the registry;
\* each entry's inputSchema.required holds exactly the names of the tool's
\* parameters declared required, and inputSchema.properties holds each
\* declared parameter's type and description.
C15_ToolsListSchema ==
    \A c \in Conns :
        (/\ Dispatched(sess[c])
         /\ Decoded(sess[c]).ok
         /\ contains(Decoded(sess[c]).v, "method")
         /\ Decoded(sess[c]).v.o["method"] = JStr("tools/list"))
        => /\ Len(sess[c].responses) = 1
           /\ contains(sess[c].responses[1], "result")
           /\ LET list == sess[c].responses[1].o["result"].o["tools"]
              IN  /\ Len(list) = Cardinality(DOMAIN tools_)
                  /\ {list[i].o["name"].s : i \in 1..Len(list)} = DOMAIN tools_
                  /\ \A i \in 1..Len(list) :
                        LET tool == tools_[list[i].o["name"].s]
                            schema == list[i].o["inputSchema"].o
                        IN  /\ list[i].o["description"] = JStr(tool.description)
                            /\ schema["type"] = JStr("object")
                            /\ Len(schema["required"]) = Cardinality(RequiredNames(tool))
                            /\ Range(schema["required"])
                                    = {JStr(n) : n \in RequiredNames(tool)}
                            /\ DOMAIN schema["properties"].o
                                    = {p.name : p \in Parameters(tool)}
                            /\ \A p \in Parameters(tool) :
                                    schema["properties"].o[p.name]
                                        = JObj([type |-> JStr(p.type),
                                                description |-> JStr(p.description)])

\* tools/list was answered from a registry of two tools, one of them with a
\* required and an optional parameter
C15_Witness ==
    \E c \in Conns :
        /\ Dispatched(sess[c])
        /\ sess[c].message
              = ObjectText(<<Member("id", JNum(1)), Member("method", JStr("tools/list"))>>)
        /\ Responded(sess[c])
        /\ Len(sess[c].responses[1].o["result"].o["tools"]) = 2
        /\ registered = <<EchoTool, RaisingTool, SecondEcho>>

\* the tool of the last registration under a name, or nullptr
LastRegistered(name) ==
    LET made == {i \in 1..Len(registered) : registered[i].name = name}
    IN  IF made = {} THEN Nullptr
        ELSE registered[CHOOSE i \in made : \A j \in made : j <= i]

\* C16: after any sequence of registerTool calls the registry holds one entry
\* per distinct name, getTool gives the tool of the last registration under
\* the name or nullptr when there was none, and hasTool agrees with getTool.
C16_LastRegistrationWins ==
    /\ Cardinality(DOMAIN tools_)
          = Cardinality({registered[i].name : i \in 1..Len(registered)})
    /\ \A name \in ToolNames :
          /\ getTool(tools_, name) = LastRegistered(name)
          /\ hasTool(tools_, name) <=> getTool(tools_, name) # Nullptr

\* a name was registered twice and a third registration used another name
C16_Witness ==
    /\ registered = <<SecondEcho, FailingTool, EchoTool>>
    /\ getTool(tools_, "echo") = EchoTool
    /\ getTool(tools_, "raise") = Nullptr

\* C17: a tools/call naming a registered tool whose handler returns is
\* answered with that return value as result; the built-in echo handler
\* returns the text content "Echo: " followed by arguments.text, and
\* "Echo: " alone when arguments has no text member.
C17_CallResult ==
    \A c \in Conns :
        (/\ Dispatched(sess[c])
         /\ Decoded(sess[c]).ok
         /\ IsToolsCallWithArguments(Decoded(sess[c]).v)
         /\ hasTool(tools_, CalledName(Decoded(sess[c]).v)))
        => LET request == Decoded(sess[c]).v
               tool == getTool(tools_, CalledName(request))
               arguments == CalledArguments(request)
               echoed(text) ==
                   /\ Len(sess[c].responses) = 1
                   /\ ~contains(sess[c].responses[1], "error")
                   /\ contains(sess[c].responses[1], "result")
                   /\ sess[c].responses[1].o["result"]
                         = JObj([content |-> <<JObj([type |-> JStr("text"),
                                                     text |-> JStr(text)])>>])
                   /\ sess[c].responses[1].o["id"] = request.o["id"]
                   /\ sess[c].executed = <<CalledName(request)>>
           IN  /\ Execute(tool, arguments).k = "ok"
                    => /\ Len(sess[c].responses) = 1
                       /\ contains(sess[c].responses[1], "result")
                       /\ sess[c].responses[1].o["result"] = Execute(tool, arguments).v
               /\ (tool.impl = "EchoTool" /\ arguments.t = "object")
                    => /\ (contains(arguments, "text") /\ arguments.o["text"].t = "string")
                            => echoed("Echo: " \o arguments.o["text"].s)
                       /\ ~contains(arguments, "text") => echoed("Echo: ")

\* the echo tool was called without the text member it declares required
C17_Witness ==
    \E c \in Conns :
        /\ Dispatched(sess[c])
        /\ sess[c].message
              = ObjectText(<<Member("id", JNum(1)), Member("method", JStr("tools/call")),
                             Member("params", JObj([name |-> JStr("echo"),
                                                    arguments |-> JObj(NoMembers)]))>>)
        /\ registered = <<EchoTool>>
        /\ Responded(sess[c])
        /\ contains(sess[c].responses[1], "result")
        /\ sess[c].pc = "write"

----------------------------------------------------------------------------
(* C12..C14, C20: the life of a connection (SpecSession) *)

SsePc == {"sse_write", "sse_timer", "sse_keepalive"}

Writes(s) == {i \in 1..Len(s.ops) : s.ops[i].op = "async_write"}

\* C12: a connection that is not an event stream has started at most one
\* write; the step that completes that write, with or without an error code,
\* closes the socket, and a closed connection starts nothing any more.
C12_OneResponseThenClose ==
    [][\A c \in Conns :
         /\ ~sess[c].sse => Cardinality(Writes(sess[c])) <= 1
         /\ sess[c].pc = "write"
              => /\ Cardinality(Writes(sess[c])) = 1
                 /\ sess[c].ops[Len(sess[c].ops)].op = "async_write"
                 /\ sess'[c] # sess[c]
                      => /\ sess'[c].pc = "closed"
                         /\ sess'[c].ops = <<>>
         /\ sess[c].pc = "closed" => sess'[c] = sess[c]
      ]_vars

\* a response write failed and the socket was closed
C12_Witness ==
    \E c \in Conns : sess[c].pc = "closed" /\ sess[c].ec /\ ~sess[c].sse

\* C13: on an event stream, a completion with an error code leaves the
\* session abandoned with no operation started, and an abandoned session
\* never changes again.
C13_SseClosedIsTerminal ==
    [][\A c \in Conns :
         /\ (sess[c].pc \in SsePc /\ sess'[c].ec)
              => /\ sess'[c].pc = "abandoned"
                 /\ sess'[c].ops = <<>>
         /\ (sess[c].sse /\ sess[c].pc = "abandoned") => sess'[c] = sess[c]
      ]_vars

\* an event stream was abandoned
C13_Witness ==
    \E c \in Conns : sess[c].sse /\ sess[c].pc = "abandoned" /\ sess[c].ec

\* C14: on an event stream, every completion without an error code leaves
\* the stream open with the next operation of the heartbeat loop started.
C14_SseKeptOpen ==
    [][\A c \in Conns :
         (sess[c].pc \in SsePc /\ sess'[c] # sess[c] /\ ~sess'[c].ec)
         => /\ sess'[c].pc \in {"sse_timer", "sse_keepalive"}
            /\ sess'[c].pc # sess[c].pc
            /\ Len(sess'[c].ops) = Len(sess[c].ops) + 1
            /\ sess[c].pc \in {"sse_write", "sse_keepalive"}
                 => sess'[c].ops[Len(sess'[c].ops)] = AsyncWait(30)
      ]_vars

\* the stream waits for its timer again after two heartbeats
C14_Witness ==
    \E c \in Conns :
        sess[c].sse /\ sess[c].pc = "sse_timer" /\ sess[c].heartbeats >= 2 /\ ~sess[c].ec

\* the operations of an event stream, in order: the request read, the
\* handshake write, then timer and keepalive write in turn
SseOrder(n) ==
    [i \in 1..n |->
        IF i = 1 THEN AsyncReadUntil
        ELSE IF i = 2
        THEN AsyncWrite(Http(200, "text/event-stream", 0, "keep-alive",
                             <<LBrace, Member("jsonrpc", JStr("2.0")),
                               Member("method", JStr("endpoint")),
                               Member("params", JObj([endpoint |-> JStr("/message")])),
                               RBrace>>))
        ELSE IF i % 2 = 1 THEN AsyncWait(30)
        ELSE AsyncWrite(Http(0, "", 0, "", <<Keepalive>>))]

\* C20: the operations of an event stream are, in order, the handshake write
\* (200, text/event-stream, the endpoint notification for "/message"), then
\* 30-second timer and keepalive write in turn; while the handshake write is
\* pending no timer was started, and each timer and each keepalive write is
\* started only when the one before it has completed.
C20_SseOrder ==
    \A c \in Conns :
        (sess[c].sse /\ sess[c].pc \in SsePc)
        => /\ sess[c].ops = SseOrder(Len(sess[c].ops))
           /\ sess[c].pc = "sse_write" => Len(sess[c].ops) = 2
           /\ sess[c].pc = "sse_timer" => Len(sess[c].ops) = 3 + 2 * sess[c].heartbeats
           /\ sess[c].pc = "sse_keepalive" => Len(sess[c].ops) = 4 + 2 * sess[c].heartbeats

\* the second keepalive is being written
C20_Witness ==
    \E c \in Conns :
        /\ sess[c].sse
        /\ sess[c].pc = "sse_keepalive"
        /\ sess[c].heartbeats = 1
        /\ Len(sess[c].ops) = 6

----------------------------------------------------------------------------
(* C18, C19: the body and the header block (SpecSession) *)

Reads(s) == {i \in 1..Len(s.ops) : s.ops[i].op = "async_read"}

\* C18: the body handed to handle_message is the first content_length bytes
\* the client sent after the header block, the buffered ones first; no
\* network read is issued when they were all buffered, and otherwise one
\* read of content_length minus the buffered count.
C18_BodyBytes ==
    \A c \in Conns :
        /\ Dispatched(sess[c])
             => /\ Len(sess[c].message) = sess[c].content_length
                /\ sess[c].message = SubSeq(sess[c].sent, 1, sess[c].content_length)
                /\ sess[c].available >= sess[c].content_length
                     => /\ sess[c].netReads = 0
                        /\ Reads(sess[c]) = {}
                        /\ sess[c].body_buffer = <<>>
                /\ sess[c].available < sess[c].content_length
                     => /\ sess[c].netReads = 1
                        /\ Cardinality(Reads(sess[c])) = 1
                        /\ AsyncRead(sess[c].content_length - sess[c].available)
                              \in Range(sess[c].ops)
                        /\ SubSeq(sess[c].message, 1, sess[c].available)
                              = SubSeq(sess[c].sent, 1, sess[c].available)
        /\ (sess[c].pc = "read_body" /\ ~Dispatched(sess[c]))
             => /\ sess[c].available < sess[c].content_length
                /\ sess[c].bytes_to_read = sess[c].content_length - sess[c].available
                /\ sess[c].body_buffer = SubSeq(sess[c].sent, 1, sess[c].available)
                /\ sess[c].ops[Len(sess[c].ops)] = AsyncRead(sess[c].bytes_to_read)

\* one byte of a four-byte body was buffered and three were read
C18_Witness ==
    \E c \in Conns :
        /\ Dispatched(sess[c])
        /\ sess[c].content_length = 4
        /\ sess[c].available = 1
        /\ sess[c].netReads = 1
        /\ Len(sess[c].message) = 4

\* a header value without a trailing carriage return
StripCr(value) ==
    IF Len(value) > 0 /\ value[Len(value)] = "\r"
    THEN SubSeq(value, 1, Len(value) - 1)
    ELSE value

\* the header lines that hold a colon
Fields(lines) == {i \in 1..Len(lines) : lines[i].colon}

\* C19: once the request has been read, the header loop has not aborted it;
\* every line with a colon has its entry under the lowercased key, whose
\* value is what followed the colon (whitespace after the colon or not)
\* without the trailing carriage return; lines without a colon add nothing;
\* and the content_length of an in-scope POST is the number the client sent.
C19_HeaderParsing ==
    \A c \in Conns :
        sess[c].method # ""
        => LET lines == sess[c].lines
               headers == sess[c].headers
           IN  /\ sess[c].framed
               /\ DOMAIN headers = {ToLower(lines[i].key) : i \in Fields(lines)}
               /\ \A i \in Fields(lines) :
                     (\A j \in Fields(lines) :
                         ToLower(lines[j].key) = ToLower(lines[i].key) => j <= i)
                     => SkipSpace(headers[ToLower(lines[i].key)])
                          = SkipSpace(StripCr(lines[i].after))
               /\ \A i \in Fields(lines) :
                     (/\ InScopePost(sess[c].method, sess[c].path)
                      /\ ToLower(lines[i].key) = "content-length"
                      /\ Stoull(StripCr(lines[i].after)).k = "ok"
                      /\ ~Stoull(StripCr(lines[i].after)).wrapped)
                     => sess[c].content_length = Stoull(StripCr(lines[i].after)).n

----------------------------------------------------------------------------
(* C21: one operation at a time, in order, side by side (SpecSideBySide) *)

\* the session waits for the completion of an operation
Live(s) ==
    s.pc \in {"read_request", "read_body", "write", "sse_write", "sse_timer", "sse_keepalive"}

\* operations started whose completion handler has not run
Pending(s) == Len(s.ops) - s.completed

IsPrefix(p, q) == Len(p) <= Len(q) /\ p = SubSeq(q, 1, Len(p))

\* the routines of a session that answers a POST, in order
PostOrder == <<"start", "read_request", "read_post_body", "handle_message", "send_response">>

OneAtATime ==
    \A c \in Conns :
        /\ Pending(sess[c]) \in {0, 1}
        /\ (Live(sess[c]) /\ sess[c].fault = "") => Pending(sess[c]) = 1
        /\ ~Live(sess[c]) => Pending(sess[c]) = 0
        /\ Dispatched(sess[c])
             => /\ IsPrefix(sess[c].calls, PostOrder)
                /\ Len(sess[c].responses) <= 1
                /\ Responded(sess[c])
                     => /\ sess[c].calls = PostOrder
                        /\ sess[c].pc = "write"
                        /\ sess[c].ops[Len(sess[c].ops)].op = "async_write"
                        /\ \A i \in 1..(Len(sess[c].ops) - 1) :
                              sess[c].ops[i].op \in {"async_read_until", "async_read"}
        /\ sess[c].pc = "read_body"
             => /\ IsPrefix(sess[c].calls, PostOrder)
                /\ sess[c].ops = <<AsyncReadUntil, AsyncRead(sess[c].bytes_to_read)>>
        /\ \A d \in Conns :
              (/\ Responded(sess[c]) /\ Responded(sess[d])
               /\ sess[c].message = sess[d].message)
              => /\ sess[c].responses = sess[d].responses
                 /\ sess[c].out = sess[d].out

SessionsApart ==
    /\ tools_' = tools_
    /\ \A c, d \in Conns :
          c # d => (sess'[c] = sess[c] \/ sess'[d] = sess[d])
    /\ \A c \in Conns :
          /\ (Responded(sess[c]) /\ sess'[c] # sess[c]) => sess'[c].pc = "closed"
          /\ (sess[c].pc = "read_body" /\ sess'[c] # sess[c])
               => \/ sess'[c].pc = "abandoned"
                  \/ Dispatched(sess'[c]) /\ sess'[c].message = sess'[c].sent

\* C21: a session has at most one operation pending, and exactly one while
\* it lives; a POST goes through read_request, read_post_body,
\* handle_message and send_response in this order and is then closed; a step
\* of one session changes no other session and not the registry, and two
\* sessions given the same body produce the same response however their
\* steps interleave.
C21_OneAtATimeInOrder == []OneAtATime /\ [][SessionsApart]_vars

\* two sessions side by side: one waits for its body while the other has
\* answered a body it read later
C21_Witness ==
    \E c, d \in Conns :
        /\ c < d
        /\ sess[c].pc = "read_body"
        /\ Pending(sess[c]) = 1
        /\ Responded(sess[d])
        /\ sess[d].netReads = 1
        /\ sess[d].message = EchoCallText

----------------------------------------------------------------------------
(* C22: the memory given to async_write (SpecSession) *)

WritePending(s) == s.pc \in {"write", "sse_write", "sse_keepalive"}

\* C22: while a write is pending the memory given to async_write is held by
\* its completion handler, and every write that completed put on the wire
\* the bytes the session built.
C22_WriteBufferAlive ==
    \A c \in Conns :
        /\ WritePending(sess[c]) => sess[c].write_buffer = SharedString
        /\ sess[c].wire \in {"none", "as built"}

====
